---- MODULE Spec2Model ----
(***************************************************************************)
(* State-machine model of the Uniflow backend (backend/main.py and the     *)
(* services it calls): the Proposal / ActiveTender tables, the user        *)
(* roster, and the request handlers create_proposal, iterate_proposal,     *)
(* chat_with_files, submit_draft, rename_proposal, delete_proposal,        *)
(* pin_proposal and publish_tender.                                        *)
(*                                                                         *)
(* Abstractions:                                                           *)
(*  - Documents are opaque values.  SQL NULL / Python None and the empty   *)
(*    string are both written "": every read of these columns in the       *)
(*    handlers is a truthiness test or `x or ""`, which cannot tell them   *)
(*    apart.                                                               *)
(*  - Titles are real strings, so that title + " - " + department is       *)
(*    computed by concatenation as the code does.                          *)
(*  - created_at / updated_at of proposals are not modelled.               *)
(*  - Every answer of an external collaborator (LLM, mail transport) is a  *)
(*    nondeterministic choice.                                             *)
(*  - Requests are served one at a time.  `last` is the observable record  *)
(*    of the request being answered: its HTTP status, the JSON summary it  *)
(*    returns and the collaborator calls it made (the handlers print these *)
(*    as log lines).  Return delivers the answer; `prev` then remembers    *)
(*    what the request was, for statements about two successive calls.     *)
(*  - The User table is fixed: registration and membership changes are not *)
(*    modelled.                                                            *)
(*                                                                         *)
(*  - A text handed to a prompt-building function is known by its origin   *)
(*    and its length; the tokenizer's counts are environment values.       *)
(*                                                                         *)
(* Four specifications:                                                    *)
(*  - Spec: one server process.  Every handler is an `async def` that      *)
(*    never yields the event loop between its first query and its last     *)
(*    commit (the OpenAI and Resend clients it calls are synchronous), so  *)
(*    a handler is one atomic action.                                      *)
(*  - Steps: two server processes on the same database.  A submit_draft    *)
(*    or publish_tender is a sequence of steps, one per query-or-commit    *)
(*    group of the handler, and the steps of the two processes interleave. *)
(*    `inflight` holds each process's position and locals.                 *)
(*  - Reads: one server process that creates and submits proposals and     *)
(*    serves the read accessors.                                           *)
(*  - Calls: summarize_department_proposals and the prompt assembly of     *)
(*    generate_proposal_response, called on arguments of every shape;      *)
(*    `call` holds the arguments and the result.                           *)
(***************************************************************************)
EXTENDS Integers, Sequences, FiniteSets, TLC

VARIABLES
    services,   \* the service singletons that were constructed at start-up
    users,      \* User table: email -> [organization_nif, role, department]
    proposals,  \* Proposal table: id -> row
    tenders,    \* ActiveTender table: id -> row
    last,       \* observable record of the request being answered, or Idle
    prev,       \* what the previously answered request was
    requests,   \* the number of requests served so far
    inflight,   \* server process -> the request it is in the middle of
    call        \* a prompt-building function: its arguments and its result

vars ==
    <<services, users, proposals, tenders, last, prev, requests, inflight,
      call>>

----------------------------------------------------------------------------
(* Bounds of the model *)

MaxProposals == 3
MaxRelevant == 2
MaxTitleLen == 13
MaxNow == 1
MaxRequests == 4
MaxContributions == 21
MaxVaried == 3
MaxAttachments == 4

----------------------------------------------------------------------------
(* Domains *)

ProposalIds == 1..MaxProposals
TenderIds == 1..MaxProposals

OwnerEmail == "o@x.org"
MemberEmails == {"a@x.org", "b@x.org"}
\* A user who registered without an organization.
LonerEmail == "z@y.org"
UserEmails == {OwnerEmail, LonerEmail} \cup MemberEmails
\* The users that send requests: the owner, a member and the loner.
Callers == {OwnerEmail, "a@x.org", LonerEmail}

OrgNif == "X"

\* Titles a caller types into create_proposal / rename_proposal.
UserTitles == {"T", "T - Eng"}

\* Document bodies are named after the call that produced them; "" is the
\* empty / NULL document.
\* Bodies a caller posts with create_proposal (ProposalCreate.content).
CreateDocs == {"", "c"}
\* What generate_proposal_response can return after _strip_markdown_fences.
GenDocs == {"", "g"}
\* What generate_final_tender can return after _strip_markdown_fences.
FinalDocs == {"", "f"}
\* What generate_personalized_proposal returns for a department.
PersonalizedProposal(department) == "p:" \o department

\* The readings of datetime.utcnow(), in days.
Clock == 0..MaxNow

AllServices ==
    {"gemini_service", "proposal_revision_service", "email_service",
     "active_tender_service"}
OpenAIServices ==
    {"gemini_service", "proposal_revision_service", "active_tender_service"}

gemini_service == "gemini_service" \in services
proposal_revision_service == "proposal_revision_service" \in services
email_service == "email_service" \in services
active_tender_service == "active_tender_service" \in services

----------------------------------------------------------------------------
(* Tables *)

\* Column defaults of models/proposal.py.
NewProposal(user_id, title, content) ==
    [user_id |-> user_id, title |-> title, content |-> content,
     pinned |-> FALSE, status |-> "draft", final_draft |-> FALSE,
     proposal_revision |-> "", assigned_to_email |-> ""]

Ids == DOMAIN proposals

\* generate_uuid: a fresh primary key (the smallest unused one; every
\* reference to a deleted key is removed by ON DELETE CASCADE).
FreshId(rows) == CHOOSE i \in ProposalIds \ DOMAIN rows :
                    \A j \in ProposalIds \ DOMAIN rows : i <= j

Insert(rows, row) == [i \in DOMAIN rows \cup {FreshId(rows)} |->
                        IF i \in DOMAIN rows THEN rows[i] ELSE row]

Remove(rows, id) == [i \in DOMAIN rows \ {id} |-> rows[i]]

\* The record of a request that touched nothing but the HTTP status.
NoSummary ==
    [relevant_departments |-> 0, emails_sent |-> 0, emails_failed |-> 0,
     tender_generated |-> FALSE]

\* The record of a request that made no collaborator call:
\*   op, id, code, detail  the request and the HTTP status and detail
\*   caller                submit/publish: the authenticated user; the read
\*                         accessors: the user who sent the request
\*   utcnow                publish: the clock reading calculate_dates took
\*   read, gen, generated  iterate/chat: the current_content handed to the
\*                         generator, how the call ended ("none" when it was
\*                         not made, "ok", "failed") and the text returned;
\*                         submit: generated is the final_tender of step 4
\*   roster                submit: the emails of available_departments
\*   extract, relevant     submit: the classification answer and the
\*                         relevant_people got from it; publish: extract is
\*                         the answer of the title/price extraction
\*                         ("none" when it was not called)
\*   attempted             submit: the number of entries whose personalized
\*                         generation was invoked
\*   bodies, mails         submit: proposal_content of department_proposals
\*                         and success of email_results, in order
\*   transport             submit: what the mail transport answered to each
\*                         notification attempted, in order
\*   final                 submit: the consolidation call ("none", "ok",
\*                         "failed")
\*   summary               submit: the notification summary returned
\*   inserted              submit: the ids of the revision rows it inserted
\*   returned              the read accessors: the ids of the rows in the
\*                         response body
\*   repeat                submit: the request before was a submit_draft of
\*                         the same proposal that returned its summary, with
\*                         the same roster and the same relevant list
Reply(op, id, code, detail) ==
    [op |-> op, id |-> id, code |-> code, detail |-> detail,
     caller |-> "", utcnow |-> 0,
     read |-> "", gen |-> "none", generated |-> "",
     roster |-> {}, extract |-> "none", relevant |-> <<>>, attempted |-> 0,
     bodies |-> <<>>, mails |-> <<>>, transport |-> <<>>, final |-> "none",
     summary |-> NoSummary, repeat |-> FALSE, inserted |-> {},
     returned |-> {}]

NotFound(op, id) == Reply(op, id, 404, "Proposal not found")

Idle == Reply("idle", 0, 0, "")

NoSubmit == [id |-> 0, roster |-> {}, relevant |-> <<>>, inserted |-> {}]

\* The server processes of the Steps specification, and the locals of a
\* handler in the middle of a request:
\*   pc        where the handler is ("waiting" before its request, "done"
\*             after it)
\*   op, id, caller, code   the request and its HTTP status
\*   relevant, i            submit: relevant_people and the loop index
\*   text, existing         submit: personalized_proposal and the id of
\*                          existing_revision (0 for None)
\*   bodies, mails          submit: department_proposals and email_results
\*   final                  submit: final_tender
\*   row                    publish: the proposal as loaded by the first
\*                          query
\*   tender                 publish: the id of the ActiveTender added
Workers == {1, 2}

Waiting ==
    [pc |-> "waiting", op |-> "none", id |-> 0, caller |-> "", code |-> 0,
     relevant |-> <<>>, i |-> 0, text |-> "", existing |-> 0,
     bodies |-> <<>>, mails |-> <<>>, final |-> "",
     row |-> NewProposal("", "", ""), tender |-> 0]

\* No prompt-building function has been called.
NoCall == [fn |-> "none", args |-> <<>>, result |-> <<>>]

\* A text is known by where it comes from and how long it is; text[:k] is
\* the text of the same origin cut to k characters.
Text(id, len) == [id |-> id, len |-> len]

Min(a, b) == IF a <= b THEN a ELSE b

Prefix(text, k) == [text EXCEPT !.len = Min(k, text.len)]

----------------------------------------------------------------------------
(* Users *)

\* main.py:174-209, register: the first user of an organization and a user
\* without organization are owners, the others viewers.
InitUsers ==
    [e \in UserEmails |->
        CASE e = OwnerEmail ->
                [organization_nif |-> OrgNif, role |-> "owner", department |-> ""]
          [] e = LonerEmail ->
                [organization_nif |-> "", role |-> "owner", department |-> ""]
          [] OTHER ->
                [organization_nif |-> OrgNif, role |-> "viewer",
                 department |-> IF e = "a@x.org" THEN "Eng" ELSE "Fin"]]

\* User.name or email.split("@")[0].title()
UserName(e) ==
    CASE e = "a@x.org" -> "A" [] e = "b@x.org" -> "B" [] e = LonerEmail -> "Z"
      [] OTHER -> "O"

\* main.py:360-368, an entry of available_departments.
Person(e) == [name |-> UserName(e), department |-> users[e].department,
              email |-> e]

\* Variant of AvailableDepartments: the organization is not looked at.
AvailableDepartmentsAnyOrg(caller) ==
    {e \in UserEmails : users[e].role # "owner" /\ users[e].department # ""}

\* submit_draft step 1: the non-owner members of the caller's organization
\* that have a department.
AvailableDepartments(caller) ==
    {e \in UserEmails :
        /\ users[e].organization_nif = users[caller].organization_nif
        /\ users[e].role # "owner"
        /\ users[e].department # ""}

----------------------------------------------------------------------------
(* Start-up *)

Init ==
    /\ services \in {AllServices, AllServices \ {"email_service"},
                     AllServices \ OpenAIServices}
    /\ users = InitUsers
    /\ proposals = <<>>
    /\ tenders = <<>>
    /\ last = Idle
    /\ prev = NoSubmit
    /\ requests = 0
    /\ inflight = [w \in Workers |-> Waiting]
    /\ call = NoCall

----------------------------------------------------------------------------
(* Every handler serves one request. *)

Served ==
    /\ last = Idle
    /\ requests < MaxRequests
    /\ requests' = requests + 1
    /\ UNCHANGED <<prev, inflight, call>>

\* What is remembered of an answered request: of a submit_draft that
\* returned its summary, the proposal, the roster, the relevant list and
\* the rows it inserted.
Remember(l) ==
    IF l.op = "submit" /\ l.code = 200
    THEN [id |-> l.id, roster |-> l.roster, relevant |-> l.relevant,
          inserted |-> l.inserted]
    ELSE NoSubmit

\* The answer is delivered and the next request can be served.
Return ==
    /\ last # Idle
    /\ last' = Idle
    /\ prev' = Remember(last)
    /\ UNCHANGED <<services, users, proposals, tenders, requests, inflight,
                   call>>

----------------------------------------------------------------------------
(* POST /proposals *)

create_proposal(caller, title, content) ==
    /\ Served
    /\ Cardinality(Ids) < MaxProposals
    /\ proposals' = Insert(proposals, NewProposal(caller, title, content))
    /\ last' = Reply("create", FreshId(proposals), 200, "")
    /\ UNCHANGED <<services, users, tenders>>

----------------------------------------------------------------------------
(* POST /proposals/{id}/iterate and POST /proposals/{id}/chat *)

\* An answer of a completion call: an exception, or the returned document.
GenFailure == [ok |-> FALSE, text |-> ""]
GenOutcomes == {GenFailure} \cup {[ok |-> TRUE, text |-> d] : d \in GenDocs}
FinalOutcomes == {GenFailure} \cup {[ok |-> TRUE, text |-> d] : d \in FinalDocs}
PersonalOutcomes(person) ==
    {GenFailure, [ok |-> TRUE, text |-> PersonalizedProposal(person.department)]}

\* assigned_to_email is "set" when it is truthy.
IsRevision(p) == p.assigned_to_email # ""

\* Variant of CurrentContent: the generator always gets `content`.
CurrentContentAlways(p) == p.content

\* main.py:283 and main.py:741, the text handed to the generator:
\*   proposal.proposal_revision if proposal.assigned_to_email
\*                                 and proposal.proposal_revision
\*   else proposal.content
CurrentContent(p) ==
    IF IsRevision(p) /\ p.proposal_revision # ""
    THEN p.proposal_revision
    ELSE p.content

\* main.py:305-308 and main.py:759-762, the field the answer replaces.
StoreGenerated(p, new_content) ==
    IF IsRevision(p)
    THEN [p EXCEPT !.proposal_revision = new_content]
    ELSE [p EXCEPT !.content = new_content]

\* Variant of AfterGeneration: the assignment is made whatever the answer.
AfterGenerationAlways(p, g) == StoreGenerated(p, g.text)

\* main.py:270-311 and main.py:727-773: the row once the generation call
\* has answered g; an exception leaves the handler before any assignment.
AfterGeneration(p, g) == IF g.ok THEN StoreGenerated(p, g.text) ELSE p

\* The part iterate and chat share, from the generation call on.
Generate(op, id, g) ==
    /\ proposals' = [proposals EXCEPT ![id] = AfterGeneration(@, g)]
    /\ last' = [Reply(op, id, IF g.ok THEN 200 ELSE 500,
                      IF g.ok THEN "" ELSE "Error generating") EXCEPT
                    !.read = CurrentContent(proposals[id]),
                    !.gen = IF g.ok THEN "ok" ELSE "failed",
                    !.generated = g.text]

Unconfigured(op, id) == Reply(op, id, 503, "AI service not configured")

iterate_proposal(id, g) ==
    /\ Served
    /\ IF id \notin Ids
       THEN /\ last' = NotFound("iterate", id)
            /\ UNCHANGED proposals
       ELSE IF ~gemini_service
       THEN /\ last' = Unconfigured("iterate", id)
            /\ UNCHANGED proposals
       ELSE Generate("iterate", id, g)
    /\ UNCHANGED <<services, users, tenders>>

\* What became of the uploaded files: all processed, one of an unsupported
\* content type (400), or one whose processing raised (500).
FileOutcomes == {"ok", "unsupported", "error"}

chat_with_files(id, files, g) ==
    /\ Served
    /\ IF id \notin Ids
       THEN /\ last' = NotFound("chat", id)
            /\ UNCHANGED proposals
       ELSE IF ~gemini_service
       THEN /\ last' = Unconfigured("chat", id)
            /\ UNCHANGED proposals
       ELSE IF files = "unsupported"
       THEN /\ last' = Reply("chat", id, 400, "Unsupported file type")
            /\ UNCHANGED proposals
       ELSE IF files = "error"
       THEN /\ last' = Reply("chat", id, 500, "Error processing file")
            /\ UNCHANGED proposals
       ELSE Generate("chat", id, g)
    /\ UNCHANGED <<services, users, tenders>>

----------------------------------------------------------------------------
(* PATCH /proposals/{id}, DELETE /proposals/{id}, POST /proposals/{id}/pin *)

rename_proposal(id, title) ==
    /\ Served
    /\ IF id \notin Ids
       THEN /\ last' = NotFound("rename", id)
            /\ UNCHANGED proposals
       ELSE /\ proposals' = [proposals EXCEPT ![id].title = title]
            /\ last' = Reply("rename", id, 200, "")
    /\ UNCHANGED <<services, users, tenders>>

\* active_tenders.proposal_id is declared ON DELETE CASCADE.
CascadeDelete(rows, id) ==
    [t \in {u \in DOMAIN rows : rows[u].proposal_id # id} |-> rows[t]]

delete_proposal(id) ==
    /\ Served
    /\ IF id \notin Ids
       THEN /\ last' = NotFound("delete", id)
            /\ UNCHANGED <<proposals, tenders>>
       ELSE /\ proposals' = Remove(proposals, id)
            /\ tenders' = CascadeDelete(tenders, id)
            /\ last' = Reply("delete", id, 200, "")
    /\ UNCHANGED <<services, users>>

pin_proposal(id) ==
    /\ Served
    /\ IF id \notin Ids
       THEN /\ last' = NotFound("pin", id)
            /\ UNCHANGED proposals
       ELSE /\ proposals' = [proposals EXCEPT ![id].pinned = ~proposals[id].pinned]
            /\ last' = Reply("pin", id, 200, "")
    /\ UNCHANGED <<services, users, tenders>>

----------------------------------------------------------------------------
(* ProposalRevisionService.extract_relevant_departments *)

\* The entries the classification call can name: the two department
\* contacts, whether or not they are in the roster it was given.
People ==
    {[name |-> "A", department |-> "Eng", email |-> "a@x.org"],
     [name |-> "B", department |-> "Fin", email |-> "b@x.org"]}

\* An entry the classification call makes up: nothing ties the model's
\* answer to the roster in its prompt.
Outsider == [name |-> "Z", department |-> "Ops", email |-> LonerEmail]

\* The answers that name no entry twice.
RelevantLists ==
    {s \in UNION {[1..n -> People] : n \in 0..MaxRelevant} :
        \A i, j \in 1..Len(s) : i # j => s[i] # s[j]}

\* The classification call's raw answer: `kind` is what the text is (a JSON
\* array, another JSON value, no JSON at all) or "error" when the API call
\* raises; `unclosed` says that it opens a code fence it never closes.
ExtractResponses ==
    {[kind |-> "array", unclosed |-> FALSE, value |-> v] : v \in RelevantLists}
    \cup {[kind |-> k, unclosed |-> FALSE, value |-> <<>>] :
            k \in {"object", "text"}}
    \cup {[kind |-> "array", unclosed |-> TRUE,
           value |-> <<[name |-> "A", department |-> "Eng", email |-> "a@x.org"]>>],
          [kind |-> "array", unclosed |-> FALSE, value |-> <<Outsider>>],
          [kind |-> "error", unclosed |-> FALSE, value |-> <<>>]}

\* proposal_revision_service.py:111-121: with no closing fence find()
\* returns -1 and the slice [json_start:-1] drops the last character of the
\* payload, which no JSON value survives.
JsonParses(resp) == resp.kind \in {"array", "object"} /\ ~resp.unclosed

\* Variant of extract_relevant_departments: a decode error escapes.
extract_relevant_departments_strict(resp) ==
    IF resp.kind = "error" \/ ~JsonParses(resp)
    THEN [raised |-> TRUE, value |-> <<>>]
    ELSE IF resp.kind # "array"
    THEN [raised |-> FALSE, value |-> <<>>]
    ELSE [raised |-> FALSE, value |-> resp.value]

\* proposal_revision_service.py:102-139.  raised: the call raised.
extract_relevant_departments(resp) ==
    IF resp.kind = "error"
    THEN [raised |-> TRUE, value |-> <<>>]
    ELSE IF ~JsonParses(resp)
    THEN [raised |-> FALSE, value |-> <<>>]        \* except json.JSONDecodeError
    ELSE IF resp.kind # "array"
    THEN [raised |-> FALSE, value |-> <<>>]        \* not isinstance(.., list)
    ELSE [raised |-> FALSE, value |-> resp.value]

\* The label of the answer kept in `last`.
ExtractLabel(resp) ==
    IF resp.kind # "error" /\ resp.unclosed THEN "unclosed" ELSE resp.kind

----------------------------------------------------------------------------
(* EmailService.send_proposal_notification *)

\* The transport's answers: the primary send succeeds; it raises and the
\* send to the fallback address succeeds; both raise.
MailOutcomes == {"sent", "fallback", "failed"}

\* Variant of send_proposal_notification: the second failure escapes.
send_proposal_notification_raising(m) ==
    [raised |-> m = "failed", success |-> m # "failed"]

\* email_service.py:105-148: the result dict; the second failure is caught
\* and returned, so the call itself never raises.
send_proposal_notification(m) ==
    [raised |-> FALSE, success |-> m # "failed"]

----------------------------------------------------------------------------
(* POST /proposals/{id}/submit_draft *)

\* main.py:414, 424, 502: f"{proposal.title} - {person.get('department')}"
RevisionTitle(title, person) == title \o " - " \o person.department

\* The rows a query filtered on (title, assigned_to_email) can return;
\* .first() without ORDER BY returns any one of them.
Matching(rows, title, email) ==
    {i \in DOMAIN rows :
        rows[i].title = title /\ rows[i].assigned_to_email = email}

\* main.py:422-430: the revision row of `person` for the proposal row p.
NewRevision(p, person, personalized_proposal) ==
    [user_id |-> p.user_id, title |-> RevisionTitle(p.title, person),
     content |-> p.content, pinned |-> FALSE,
     status |-> "revision", final_draft |-> TRUE,
     proposal_revision |-> personalized_proposal,
     assigned_to_email |-> person.email]

\* main.py:412-432: update the revision found, else insert a new one.
Upsert(rows, id, person, personalized_proposal) ==
    LET title == RevisionTitle(rows[id].title, person)
        existing == Matching(rows, title, person.email)
    IN  IF existing # {}
        THEN {[rows EXCEPT ![e].proposal_revision = personalized_proposal] :
                e \in existing}
        ELSE {Insert(rows, NewRevision(rows[id], person, personalized_proposal))}

\* One way the loop over relevant_people can end: the table, the
\* department_proposals and email_results collected, the number of entries
\* whose generation was invoked, and whether an exception left the loop.
LoopEnd(rows, bodies, mails, transport, attempted, aborted) ==
    [rows |-> rows, bodies |-> bodies, mails |-> mails,
     transport |-> transport, attempted |-> attempted, aborted |-> aborted]

\* main.py:396-456, the loop from entry i on: every way it can end.  Any
\* exception inside the loop is re-raised (main.py:453-456).
RECURSIVE FanOut(_, _, _, _, _, _, _)
FanOut(rows, id, relevant, i, bodies, mails, transport) ==
    IF i > Len(relevant)
    THEN {LoopEnd(rows, bodies, mails, transport, Len(relevant), FALSE)}
    ELSE UNION {
            IF ~g.ok
            THEN {LoopEnd(rows, bodies, mails, transport, i, TRUE)}
            ELSE UNION {UNION {
                    LET sent == send_proposal_notification(m)
                    IN  IF sent.raised
                        THEN {LoopEnd(r, Append(bodies, g.text), mails,
                                      Append(transport, m), i, TRUE)}
                        ELSE FanOut(r, id, relevant, i + 1,
                                    Append(bodies, g.text),
                                    Append(mails, sent.success),
                                    Append(transport, m)) :
                    m \in MailOutcomes} :
                    r \in Upsert(rows, id, relevant[i], g.text)} :
            g \in PersonalOutcomes(relevant[i])}

\* main.py:395: the loop runs only if both hold.
FanOutRuns(relevant) == relevant # <<>> /\ email_service

\* Variant of FanOutEnds: the loop walks relevant_people backwards.
FanOutEndsReversed(id, relevant) ==
    IF FanOutRuns(relevant)
    THEN FanOut(proposals, id,
                [i \in 1..Len(relevant) |-> relevant[Len(relevant) + 1 - i]],
                1, <<>>, <<>>, <<>>)
    ELSE {LoopEnd(proposals, <<>>, <<>>, <<>>, 0, FALSE)}

\* main.py:392-458, step 3.
FanOutEnds(id, relevant) ==
    IF FanOutRuns(relevant)
    THEN FanOut(proposals, id, relevant, 1, <<>>, <<>>, <<>>)
    ELSE {LoopEnd(proposals, <<>>, <<>>, <<>>, 0, FALSE)}

\* Variant of Persisted: a failed request rolls the loop's work back.
PersistedRolledBack(before, f) == before

\* main.py:432 and database/connection.py:30-36: each entry was committed
\* when it was upserted, and a request that ends with an exception only
\* closes its session, so what the loop committed stays.
Persisted(before, f) == f.rows

\* main.py:480-488, step 5.
MarkSubmitted(rows, id, final_tender) ==
    [rows EXCEPT ![id].status = "submitted",
                 ![id].proposal_revision = final_tender,
                 ![id].final_draft = TRUE]

\* main.py:495-511, step 5.5 from entry i on: the ways the final tender can
\* be written onto the revision rows.
RECURSIVE WriteBack(_, _, _, _, _)
WriteBack(rows, id, relevant, i, final_tender) ==
    IF i > Len(relevant)
    THEN {rows}
    ELSE LET person == relevant[i]
             found == Matching(rows, RevisionTitle(rows[id].title, person),
                               person.email)
         IN  IF found = {}
             THEN WriteBack(rows, id, relevant, i + 1, final_tender)
             ELSE UNION {WriteBack(
                            [rows EXCEPT ![e].proposal_revision = final_tender],
                            id, relevant, i + 1, final_tender) : e \in found}

\* main.py:480-515, steps 5 and 5.5.
Committed(rows, id, relevant, final_tender) ==
    IF final_tender # "" /\ relevant # <<>>
    THEN WriteBack(MarkSubmitted(rows, id, final_tender), id, relevant, 1,
                   final_tender)
    ELSE {MarkSubmitted(rows, id, final_tender)}

\* main.py:517-534, the summary returned.
Count(results, success) ==
    Cardinality({i \in 1..Len(results) : results[i] = success})

Summary(relevant, email_results, final_tender) ==
    [relevant_departments |-> Len(relevant),
     emails_sent |-> Count(email_results, TRUE),
     emails_failed |-> Count(email_results, FALSE),
     tender_generated |-> (final_tender # "")]

\* The revision keys of `relevant` that have no row yet, and the room the
\* model's table and title column need for them.
NewKeys(id, relevant) ==
    {k \in {<<RevisionTitle(proposals[id].title, relevant[i]), relevant[i].email>> :
                i \in 1..Len(relevant)} :
        Matching(proposals, k[1], k[2]) = {}}

Fits(id, relevant) ==
    /\ Cardinality(Ids) + Cardinality(NewKeys(id, relevant)) <= MaxProposals
    /\ \A i \in 1..Len(relevant) :
          Len(RevisionTitle(proposals[id].title, relevant[i])) <= MaxTitleLen

Failed(base, f, final) ==
    [base EXCEPT !.code = 500, !.detail = "Error processing draft",
                 !.attempted = f.attempted, !.bodies = f.bodies,
                 !.mails = f.mails, !.transport = f.transport,
                 !.final = final, !.inserted = DOMAIN f.rows \ Ids]

\* main.py:460-540, steps 4 to 8, for one way f the loop ended and one
\* answer fin of the consolidation call.
Consolidate(id, base, f, fin) ==
    IF f.aborted
    THEN /\ proposals' = Persisted(proposals, f)
         /\ last' = Failed(base, f, "none")
    ELSE IF f.bodies # <<>> /\ ~fin.ok
    THEN /\ proposals' = Persisted(proposals, f)
         /\ last' = Failed(base, f, "failed")
    ELSE LET final_tender == IF f.bodies # <<>> THEN fin.text ELSE ""
         IN  /\ proposals' \in Committed(f.rows, id, base.relevant, final_tender)
             /\ last' = [base EXCEPT
                            !.attempted = f.attempted, !.bodies = f.bodies,
                            !.mails = f.mails, !.transport = f.transport,
                            !.generated = final_tender,
                            !.inserted = DOMAIN f.rows \ Ids,
                            !.final = IF f.bodies # <<>> THEN "ok" ELSE "none",
                            !.summary = Summary(base.relevant, f.mails,
                                                final_tender)]

submit_draft(id, caller, resp) ==
    /\ Served
    /\ IF id \notin Ids
       THEN /\ last' = NotFound("submit", id)
            /\ UNCHANGED proposals
       ELSE IF ~proposal_revision_service
       THEN /\ last' = Reply("submit", id, 503,
                             "Proposal revision service not configured")
            /\ UNCHANGED proposals
       ELSE LET roster == AvailableDepartments(caller)
                extracted == IF roster # {}
                             THEN extract_relevant_departments(resp)
                             ELSE [raised |-> FALSE, value |-> <<>>]
                relevant == extracted.value
                base == [Reply("submit", id, 200, "") EXCEPT
                            !.caller = caller,
                            !.roster = roster,
                            !.extract = IF roster # {} THEN ExtractLabel(resp)
                                        ELSE "none",
                            !.relevant = relevant,
                            !.repeat = /\ prev # NoSubmit /\ prev.id = id
                                       /\ prev.roster = roster
                                       /\ prev.relevant = relevant]
            IN  IF extracted.raised
                THEN /\ last' = [base EXCEPT !.code = 500,
                                    !.detail = "Error processing draft"]
                     /\ UNCHANGED proposals
                ELSE /\ Fits(id, relevant)
                     /\ \E f \in FanOutEnds(id, relevant), fin \in FinalOutcomes :
                            Consolidate(id, base, f, fin)
    /\ UNCHANGED <<services, users, tenders>>

----------------------------------------------------------------------------
(* ActiveTender.calculate_dates and ActiveTenderService.extract_tender_fields *)

WeekDays == 7
YearDays == 365

\* Variant of calculate_dates: the deadline is a month away.
calculate_dates_month(submission_date) ==
    [submission_date |-> submission_date,
     submission_deadline |-> submission_date + 30,
     contract_expiry_date |-> submission_date + YearDays]

\* models/active_tender.py:34-47
calculate_dates(submission_date) ==
    [submission_date |-> submission_date,
     submission_deadline |-> submission_date + WeekDays,
     contract_expiry_date |-> submission_date + YearDays]

\* The first line of a document when it is a markdown heading, else "".
FirstHeading(doc) == IF doc = "f" THEN "H1" ELSE ""

\* The extraction call's answers: a JSON object, text that is no JSON, or
\* an exception of the API call.
TenderFieldResponses ==
    {[kind |-> "json", title |-> "E1", price |-> 5],
     [kind |-> "text", title |-> "", price |-> 0],
     [kind |-> "error", title |-> "", price |-> 0]}

\* active_tender_service.py:86-133
extract_tender_fields(tender_content, resp) ==
    CASE resp.kind = "json" ->
            [raised |-> FALSE, title |-> resp.title, price |-> resp.price]
      [] resp.kind = "text" ->
            [raised |-> FALSE,
             title |-> IF FirstHeading(tender_content) # ""
                       THEN FirstHeading(tender_content)
                       ELSE "Untitled Tender",
             price |-> 0]
      [] OTHER -> [raised |-> TRUE, title |-> "", price |-> 0]

----------------------------------------------------------------------------
(* POST /proposals/{id}/publish_tender *)

\* Variant of TenderContent: proposal_revision is not looked at.
TenderContentOnly(p) == p.content

\* main.py:837
TenderContent(p) ==
    IF p.proposal_revision # "" THEN p.proposal_revision ELSE p.content

\* Variant of ExistingTender: the duplicate check finds nothing.
ExistingTenderNone(id) == {}

\* main.py:843
ExistingTender(id) == {t \in DOMAIN tenders : tenders[t].proposal_id = id}

FreshTenderId == CHOOSE t \in TenderIds \ DOMAIN tenders :
                    \A u \in TenderIds \ DOMAIN tenders : t <= u

\* Variant of ExtractedFields: no fallback to the proposal's title.
ExtractedFieldsUnguarded(p, resp) ==
    LET extracted == extract_tender_fields(TenderContent(p), resp)
    IN  [title |-> extracted.title, price |-> extracted.price]

\* main.py:852-859
ExtractedFields(p, resp) ==
    LET fallback == [title |-> p.title, price |-> 0]
        extracted == extract_tender_fields(TenderContent(p), resp)
    IN  IF active_tender_service /\ ~extracted.raised
        THEN [title |-> extracted.title, price |-> extracted.price]
        ELSE fallback

\* The label kept in `last` of the title/price extraction of main.py:854-859.
FieldsLabel(resp) == IF active_tender_service THEN resp.kind ELSE "none"

\* main.py:836-850: the detail of the 400 that ends the request, or "".
PublishRejection(id, caller) ==
    IF TenderContent(proposals[id]) = ""
    THEN "No tender content available to publish"
    ELSE IF ExistingTender(id) # {}
    THEN "Tender already published for this proposal"
    ELSE IF users[caller].organization_nif = ""
    THEN "User organization NIF is required to publish tender"
    ELSE ""

\* main.py:861-875: the ActiveTender built for the proposal row p.
NewTender(id, p, caller, resp, utcnow) ==
    LET fields == ExtractedFields(p, resp)
        dates == calculate_dates(utcnow)
    IN  [proposal_id |-> id, title |-> fields.title,
         organization_nif |-> users[caller].organization_nif,
         price |-> fields.price,
         submission_date |-> dates.submission_date,
         submission_deadline |-> dates.submission_deadline,
         contract_expiry_date |-> dates.contract_expiry_date,
         tender_content |-> TenderContent(p),
         created_by |-> caller]

\* Variant of AddTender: the rows already there are written too.
AddTenderOverwrite(rows, row) ==
    [t \in DOMAIN rows \cup {FreshTenderId} |-> row]

\* main.py:877-879
AddTender(rows, row) ==
    [t \in DOMAIN rows \cup {FreshTenderId} |->
        IF t \in DOMAIN rows THEN rows[t] ELSE row]

publish_tender(id, caller, resp, utcnow) ==
    /\ Served
    /\ IF id \notin Ids
       THEN /\ last' = NotFound("publish", id)
            /\ UNCHANGED <<proposals, tenders>>
       ELSE IF PublishRejection(id, caller) # ""
       THEN /\ last' = [Reply("publish", id, 400, PublishRejection(id, caller))
                            EXCEPT !.caller = caller]
            /\ UNCHANGED <<proposals, tenders>>
       ELSE /\ Cardinality(DOMAIN tenders) < MaxProposals
            /\ tenders' = AddTender(tenders,
                                NewTender(id, proposals[id], caller, resp, utcnow))
            /\ proposals' = [proposals EXCEPT ![id].status = "published"]
            /\ last' = [Reply("publish", id, 200, "") EXCEPT
                            !.caller = caller, !.utcnow = utcnow,
                            !.extract = FieldsLabel(resp)]
    /\ UNCHANGED <<services, users>>

----------------------------------------------------------------------------
(* prompts/submit_draft.py: summarize_department_proposals *)

\* The default of the parameter max_chars_per_proposal, and total_budget.
max_chars_per_proposal == 5000
total_budget == 100000

\* len("\n\n[... content summarized for context limits ...]")
SummaryMarkerLen == 49

\* The characters of a section that are not the index, the department, the
\* contact name or the content: "\n### Department ", ": ", "\n**Contact:** ",
\* "\n\n", "\n\n---\n".
SectionFrameLen == 40

\* len(str(i))
Digits(i) == IF i < 10 THEN 1 ELSE IF i < 100 THEN 2 ELSE 3

\* Variant of chars_per_proposal: the allotment ignores the count.
chars_per_proposal_fixed(num_proposals) == max_chars_per_proposal

\* prompts/submit_draft.py:378
chars_per_proposal(num_proposals) ==
    Min(max_chars_per_proposal,
        total_budget \div (IF num_proposals >= 1 THEN num_proposals ELSE 1))

\* prompts/submit_draft.py:382-397: section i; `content` is the text the
\* section shows and `marker` says that the truncation marker follows it.
Section(i, prop, allotment) ==
    [index |-> i, department |-> prop.department, name |-> prop.name,
     content |-> IF prop.proposal_content.len > allotment
                 THEN Prefix(prop.proposal_content, allotment)
                 ELSE prop.proposal_content,
     marker |-> prop.proposal_content.len > allotment]

\* prompts/submit_draft.py:357-399: the sections joined by "\n"; for an
\* empty list the text "No department proposals available.", which has no
\* section.
summarize_department_proposals(department_proposals) ==
    [i \in 1..Len(department_proposals) |->
        Section(i, department_proposals[i],
                chars_per_proposal(Len(department_proposals)))]

\* len() of one section of the returned text.
SectionLen(section) ==
    SectionFrameLen + Digits(section.index) + Len(section.department)
        + Len(section.name) + section.content.len
        + (IF section.marker THEN SummaryMarkerLen ELSE 0)

RECURSIVE SumLen(_, _)
SumLen(sections, i) ==
    IF i > Len(sections) THEN 0
    ELSE SectionLen(sections[i]) + SumLen(sections, i + 1)

\* len("No department proposals available.")
NoProposalsLen == 34

\* len() of the returned text: the sections and the "\n" between them.
SummaryLen(sections) ==
    IF sections = <<>> THEN NoProposalsLen
    ELSE SumLen(sections, 1) + Len(sections) - 1

\* main.py:436-440: the contribution of the i-th department, whose
\* personalized proposal has len characters.
Contribution(i, len) ==
    LET person == IF i % 2 = 1
                  THEN [name |-> "A", department |-> "Eng"]
                  ELSE [name |-> "B", department |-> "Fin"]
    IN  [department |-> person.department, name |-> person.name,
         proposal_content |-> Text(i, len)]

\* The lengths a personalized proposal is given: none, around the allotment
\* of the longest list, around max_chars_per_proposal, beyond the budget.
ContentLengths ==
    {0, total_budget \div MaxContributions,
     total_budget \div MaxContributions + 1,
     max_chars_per_proposal, max_chars_per_proposal + 1, total_budget + 1}

\* The lists summarized: every list of up to MaxVaried contributions, and
\* the longer lists of contributions of one length.
ContributionLists ==
    {[i \in 1..n |-> Contribution(i, lens[i])] :
        n \in 0..MaxVaried, lens \in [1..MaxVaried -> ContentLengths]}
    \cup {[i \in 1..n |-> Contribution(i, len)] :
            n \in (MaxVaried + 1)..MaxContributions, len \in ContentLengths}

CallSummarize(department_proposals) ==
    /\ call = NoCall
    /\ call' = [fn |-> "summarize_department_proposals",
                args |-> department_proposals,
                result |-> summarize_department_proposals(department_proposals)]
    /\ UNCHANGED <<services, users, proposals, tenders, last, prev, requests,
                   inflight>>

\* The function returns to its caller.
CallReturn ==
    /\ call # NoCall
    /\ call' = NoCall
    /\ UNCHANGED <<services, users, proposals, tenders, last, prev, requests,
                   inflight>>

----------------------------------------------------------------------------
(* GeminiService.generate_proposal_response: the prompt *)

MAX_CONTEXT_TOKENS == 120000
\* gemini_service.py:136-137: a current_content of more tokens is cut to
\* this many characters.
ContentTokenLimit == 50000
ContentCharLimit == 200000
\* gemini_service.py:155-156
FileCharLimit == 100000
\* gemini_service.py:192-196: the reduced prompt's attachments[:3] and
\* extracted_text[:30000].
ReducedFiles == 3
ReducedCharLimit == 30000

\* A prompt is the list of its parts.  A part that shows a text: the text,
\* cut to `limit` characters and followed by the truncation marker when
\* `truncate` holds.
Shown(part, n, text, truncate, limit) ==
    [part |-> part, n |-> n,
     text |-> IF truncate THEN Prefix(text, limit) ELSE text,
     marker |-> truncate]

Fixed(part) == Shown(part, 0, Text(part, 0), FALSE, 0)

\* Of the parts made of the attachments, one each, those of an attachment
\* that has an extracted_text, in order.
FileParts(attachments, parts) ==
    LET HasText(part) == attachments[part.n].extracted_text.len > 0
    IN  SelectSeq(parts, HasText)

\* gemini_service.py:103-175, the assembled prompt.  count_tokens is the
\* tokenizer's count, which is not computed here: content_tokens is what
\* it answers for current_content.
FullPrompt(a) ==
    <<Fixed("system")>>
    \o (IF a.department_description THEN <<Fixed("department")>> ELSE <<>>)
    \o (IF a.current_content.len > 0
        THEN <<Shown("current", 0, a.current_content,
                     a.content_tokens > ContentTokenLimit, ContentCharLimit)>>
        ELSE <<>>)
    \o FileParts(a.attachments,
            [i \in 1..Len(a.attachments) |->
                Shown("file", i, a.attachments[i].extracted_text,
                      a.attachments[i].extracted_text.len > FileCharLimit,
                      FileCharLimit)])
    \o <<Shown("instruction", 0, a.user_message, FALSE, 0)>>
    \o (IF a.proposal_title THEN <<Fixed("title")>> ELSE <<>>)
    \o <<Fixed("final")>>

\* Variant of FirstAttachments: every attachment is kept.
FirstAttachmentsAll(attachments) == attachments

\* gemini_service.py:192, attachments[:3]
FirstAttachments(attachments) ==
    SubSeq(attachments, 1, Min(ReducedFiles, Len(attachments)))

\* gemini_service.py:181-211, the prompt rebuilt when the estimate is over
\* MAX_CONTEXT_TOKENS.
ReducedPrompt(a) ==
    <<Fixed("system")>>
    \o (LET first == FirstAttachments(a.attachments)
        IN  FileParts(first,
                [i \in 1..Len(first) |->
                    Shown("file", i, first[i].extracted_text,
                          first[i].extracted_text.len > ReducedCharLimit,
                          ReducedCharLimit)]))
    \o <<Shown("instruction", 0, a.user_message, FALSE, 0)>>
    \o <<Fixed("final")>>

\* gemini_service.py:103-224: the prompt assembled and the prompt sent to
\* the chat completion; total_tokens is what count_tokens answers for the
\* assembled prompt.
generate_proposal_response(a) ==
    [assembled |-> FullPrompt(a),
     sent |-> IF a.total_tokens > MAX_CONTEXT_TOKENS
              THEN ReducedPrompt(a)
              ELSE FullPrompt(a)]

\* The lengths of an attachment's extracted_text (0: it has none) and of
\* current_content.
FileLengths ==
    {0, ReducedCharLimit, ReducedCharLimit + 1, FileCharLimit + 1}
CurrentLengths == {0, 10, ContentCharLimit + 1}

AttachmentLists ==
    {[i \in 1..n |-> [filename |-> i, extracted_text |-> Text(i, lens[i])]] :
        n \in 0..MaxAttachments, lens \in [1..MaxAttachments -> FileLengths]}

\* The arguments of a call and the tokenizer's two counts, at and over
\* their limits.
PromptArguments ==
    [user_message : {Text("user_message", 10)},
     current_content : {Text("current_content", n) : n \in CurrentLengths},
     attachments : AttachmentLists,
     department_description : BOOLEAN,
     proposal_title : BOOLEAN,
     content_tokens : {ContentTokenLimit, ContentTokenLimit + 1},
     total_tokens : {MAX_CONTEXT_TOKENS, MAX_CONTEXT_TOKENS + 1}]

CallGenerate(a) ==
    /\ call = NoCall
    /\ call' = [fn |-> "generate_proposal_response", args |-> a,
                result |-> generate_proposal_response(a)]
    /\ UNCHANGED <<services, users, proposals, tenders, last, prev, requests,
                   inflight>>

----------------------------------------------------------------------------
(* The read accessors *)

\* main.py:222-225, GET /proposals: the rows whose user_id is the caller's.
list_proposals(caller) ==
    /\ Served
    /\ last' = [Reply("list", 0, 200, "") EXCEPT
                    !.caller = caller,
                    !.returned = {i \in Ids : proposals[i].user_id = caller}]
    /\ UNCHANGED <<services, users, proposals, tenders>>

\* main.py:241-246, GET /proposals/{id}: the route has no get_current_user
\* dependency and filters on the id alone; `caller` is whoever sent the
\* request.
get_proposal(id, caller) ==
    /\ Served
    /\ last' = IF id \in Ids
               THEN [Reply("get", id, 200, "") EXCEPT
                        !.caller = caller, !.returned = {id}]
               ELSE [NotFound("get", id) EXCEPT !.caller = caller]
    /\ UNCHANGED <<services, users, proposals, tenders>>

\* main.py:786-796, GET /my-revisions: the rows assigned to the caller.
get_my_revisions(caller) ==
    /\ Served
    /\ last' = [Reply("my-revisions", 0, 200, "") EXCEPT
                    !.caller = caller,
                    !.returned = {i \in Ids :
                                    proposals[i].assigned_to_email = caller}]
    /\ UNCHANGED <<services, users, proposals, tenders>>

\* main.py:799-814, GET /my-revisions/{id}
get_my_proposal_revision(id, caller) ==
    /\ Served
    /\ last' = IF id \in Ids /\ proposals[id].assigned_to_email = caller
               THEN [Reply("my-revision", id, 200, "") EXCEPT
                        !.caller = caller, !.returned = {id}]
               ELSE [Reply("my-revision", id, 404, "No revision found for this user on this proposal")
                        EXCEPT !.caller = caller]
    /\ UNCHANGED <<services, users, proposals, tenders>>

----------------------------------------------------------------------------
(* The system *)

Next ==
    \/ Return
    \/ \E title \in UserTitles, content \in CreateDocs :
            create_proposal(OwnerEmail, title, content)
    \/ \E id \in ProposalIds, g \in GenOutcomes : iterate_proposal(id, g)
    \/ \E id \in ProposalIds, files \in FileOutcomes, g \in GenOutcomes :
            chat_with_files(id, files, g)
    \/ \E id \in ProposalIds, caller \in Callers, resp \in ExtractResponses :
            submit_draft(id, caller, resp)
    \/ \E id \in ProposalIds, title \in UserTitles : rename_proposal(id, title)
    \/ \E id \in ProposalIds : delete_proposal(id)
    \/ \E id \in ProposalIds : pin_proposal(id)
    \/ \E id \in ProposalIds, caller \in Callers,
          resp \in TenderFieldResponses, utcnow \in Clock :
            publish_tender(id, caller, resp, utcnow)

Spec == Init /\ [][Next]_vars

----------------------------------------------------------------------------
(* Two server processes: submit_draft and publish_tender step by step *)

\* The handler of process w moves to the locals l.
Goto(w, l) == inflight' = [inflight EXCEPT ![w] = l]

\* The handler of process w ends with HTTP status code.
Done(w, l, code) == Goto(w, [l EXCEPT !.pc = "done", !.code = code])

\* Process w takes a request: each process serves one.
Accepts(w) ==
    /\ inflight[w].pc = "waiting"
    /\ requests < MaxRequests
    /\ requests' = requests + 1

\* main.py:338-395: the proposal and the roster are read and the relevant
\* people extracted.
BeginSubmit(w, id, caller, resp) ==
    LET l == [Waiting EXCEPT !.op = "submit", !.id = id, !.caller = caller]
        extracted == IF AvailableDepartments(caller) # {}
                     THEN extract_relevant_departments(resp)
                     ELSE [raised |-> FALSE, value |-> <<>>]
    IN  /\ Accepts(w)
        /\ IF id \notin Ids
           THEN Done(w, l, 404)
           ELSE IF ~proposal_revision_service
           THEN Done(w, l, 503)
           ELSE IF extracted.raised
           THEN Done(w, l, 500)
           ELSE Goto(w, [l EXCEPT
                            !.relevant = extracted.value, !.i = 1,
                            !.pc = IF FanOutRuns(extracted.value)
                                   THEN "generate" ELSE "consolidate"])
        /\ UNCHANGED <<services, users, proposals, tenders, last, prev, call>>

\* main.py:398-416: the personalized text is generated and the existing
\* revision is looked up.
SubmitGenerate(w, g) ==
    LET l == inflight[w]
        person == l.relevant[l.i]
        found == Matching(proposals, RevisionTitle(proposals[l.id].title, person),
                          person.email)
    IN  /\ l.pc = "generate"
        /\ g \in PersonalOutcomes(person)
        /\ IF ~g.ok
           THEN Done(w, l, 500)
           ELSE \E e \in IF found = {} THEN {0} ELSE found :
                    Goto(w, [l EXCEPT !.text = g.text, !.existing = e,
                                      !.pc = "save"])
        /\ UNCHANGED <<services, users, proposals, tenders, last, prev, call, requests>>

\* main.py:418-452: the revision is updated or inserted and committed, and
\* the notification is sent.
SubmitSave(w, m) ==
    LET l == inflight[w]
        person == l.relevant[l.i]
        sent == send_proposal_notification(m)
        row == NewRevision(proposals[l.id], person, l.text)
    IN  /\ l.pc = "save"
        /\ IF l.existing # 0
           THEN proposals' = [proposals EXCEPT
                                ![l.existing].proposal_revision = l.text]
           ELSE /\ Cardinality(Ids) < MaxProposals
                /\ Len(row.title) <= MaxTitleLen
                /\ proposals' = Insert(proposals, row)
        /\ IF sent.raised
           THEN Done(w, [l EXCEPT !.bodies = Append(@, l.text)], 500)
           ELSE Goto(w, [l EXCEPT
                            !.bodies = Append(@, l.text),
                            !.mails = Append(@, sent.success),
                            !.i = @ + 1,
                            !.pc = IF l.i = Len(l.relevant)
                                   THEN "consolidate" ELSE "generate"])
        /\ UNCHANGED <<services, users, tenders, last, prev, call, requests>>

\* main.py:460-488: the final tender is generated and committed to the
\* original together with its status.
SubmitConsolidate(w, fin) ==
    LET l == inflight[w]
        final_tender == IF l.bodies # <<>> THEN fin.text ELSE ""
    IN  /\ l.pc = "consolidate"
        /\ IF l.bodies # <<>> /\ ~fin.ok
           THEN /\ Done(w, l, 500)
                /\ UNCHANGED proposals
           ELSE /\ proposals' = MarkSubmitted(proposals, l.id, final_tender)
                /\ IF final_tender # "" /\ l.relevant # <<>>
                   THEN Goto(w, [l EXCEPT !.final = final_tender,
                                          !.pc = "writeback"])
                   ELSE Done(w, [l EXCEPT !.final = final_tender], 200)
        /\ UNCHANGED <<services, users, tenders, last, prev, call, requests>>

\* main.py:495-534: the final tender is written onto the revision rows and
\* committed; an exception here is logged and the summary still returned.
SubmitWriteBack(w, committed) ==
    LET l == inflight[w]
    IN  /\ l.pc = "writeback"
        /\ IF committed
           THEN proposals' \in WriteBack(proposals, l.id, l.relevant, 1, l.final)
           ELSE UNCHANGED proposals
        /\ Done(w, l, 200)
        /\ UNCHANGED <<services, users, tenders, last, prev, call, requests>>

\* main.py:832-850: the proposal is loaded and the preconditions tested.
BeginPublish(w, id, caller) ==
    LET l == [Waiting EXCEPT !.op = "publish", !.id = id, !.caller = caller]
    IN  /\ Accepts(w)
        /\ IF id \notin Ids
           THEN Done(w, l, 404)
           ELSE IF PublishRejection(id, caller) # ""
           THEN Done(w, l, 400)
           ELSE Goto(w, [l EXCEPT !.row = proposals[id], !.pc = "insert"])
        /\ UNCHANGED <<services, users, proposals, tenders, last, prev, call>>

\* main.py:852-879: the ActiveTender is built from what was loaded, added
\* and committed.
PublishInsert(w, resp, utcnow) ==
    LET l == inflight[w]
    IN  /\ l.pc = "insert"
        /\ Cardinality(DOMAIN tenders) < MaxProposals
        /\ tenders' = AddTender(tenders,
                                NewTender(l.id, l.row, l.caller, resp, utcnow))
        /\ Goto(w, [l EXCEPT !.tender = FreshTenderId, !.pc = "status"])
        /\ UNCHANGED <<services, users, proposals, last, prev, call, requests>>

\* main.py:881-891: the status is set and committed.
PublishStatus(w) ==
    LET l == inflight[w]
    IN  /\ l.pc = "status"
        /\ proposals' = [proposals EXCEPT ![l.id].status = "published"]
        /\ Done(w, l, 200)
        /\ UNCHANGED <<services, users, tenders, last, prev, call, requests>>

StepsNext ==
    \/ Return
    \/ \E content \in CreateDocs : create_proposal(OwnerEmail, "T", content)
    \/ \E w \in Workers, id \in ProposalIds, resp \in ExtractResponses :
            BeginSubmit(w, id, OwnerEmail, resp)
    \/ \E w \in Workers,
          g \in UNION {PersonalOutcomes(q) : q \in People \cup {Outsider}} :
            SubmitGenerate(w, g)
    \/ \E w \in Workers, m \in MailOutcomes : SubmitSave(w, m)
    \/ \E w \in Workers, fin \in FinalOutcomes : SubmitConsolidate(w, fin)
    \/ \E w \in Workers, committed \in BOOLEAN : SubmitWriteBack(w, committed)
    \/ \E w \in Workers, id \in ProposalIds, caller \in Callers :
            BeginPublish(w, id, caller)
    \/ \E w \in Workers, resp \in TenderFieldResponses, utcnow \in Clock :
            PublishInsert(w, resp, utcnow)
    \/ \E w \in Workers : PublishStatus(w)

Steps == Init /\ [][StepsNext]_vars

----------------------------------------------------------------------------
(* Proposals are created and submitted, and the tables are read *)

ReadsNext ==
    \/ Return
    \/ \E content \in CreateDocs : create_proposal(OwnerEmail, "T", content)
    \/ \E id \in ProposalIds, resp \in ExtractResponses :
            submit_draft(id, OwnerEmail, resp)
    \/ \E caller \in UserEmails : list_proposals(caller)
    \/ \E id \in ProposalIds, caller \in UserEmails : get_proposal(id, caller)
    \/ \E caller \in UserEmails : get_my_revisions(caller)
    \/ \E id \in ProposalIds, caller \in UserEmails :
            get_my_proposal_revision(id, caller)

Reads == Init /\ [][ReadsNext]_vars

----------------------------------------------------------------------------
(* The prompt-building functions, called on arguments of every shape *)

CallsNext ==
    \/ /\ call = NoCall
       /\ \E department_proposals \in ContributionLists :
                CallSummarize(department_proposals)
    \/ /\ call = NoCall
       /\ \E a \in PromptArguments : CallGenerate(a)
    \/ CallReturn

Calls == Init /\ [][CallsNext]_vars

----------------------------------------------------------------------------
(* Properties *)

\* The answer in `last` is that of a handler that has just run on the table
\* in `proposals`; a step that serves a request goes from last = Idle to the
\* handler's answer in last'.
Answered(op) == last.op = op
Answers(op) == last = Idle /\ last'.op = op

TendersOf(id) == {t \in DOMAIN tenders : tenders[t].proposal_id = id}

\* The rows holding the revision key of entry i of the relevant list of the
\* submit_draft answered in `last`.
RevisionRows(i) ==
    {r \in DOMAIN proposals :
        /\ proposals[r].title =
              proposals[last.id].title \o " - " \o last.relevant[i].department
        /\ proposals[r].assigned_to_email = last.relevant[i].email}

\* C1. Publish exclusivity: a publish_tender call on a proposal that an
\* ActiveTender already references, whatever was called since that tender
\* was published, is answered 400, adds no ActiveTender and leaves every
\* ActiveTender as it was; and no proposal is ever referenced by more than
\* one ActiveTender.
C1_PublishExclusivity ==
    [][ /\ (Answers("publish") /\ TendersOf(last'.id) # {})
            => /\ last'.code = 400
               /\ tenders' = tenders
        /\ \A id \in ProposalIds :
              Cardinality({t \in DOMAIN tenders' : tenders'[t].proposal_id = id}) <= 1
      ]_vars

\* A second publish_tender, refused, of a proposal that was submitted after
\* its tender was published.
C1_Witness ==
    /\ Answered("publish") /\ last.code = 400
    /\ last.detail = "Tender already published for this proposal"
    /\ Cardinality(TendersOf(last.id)) = 1
    /\ proposals[last.id].status = "submitted"

\* C2. Resubmission idempotence: after a submit_draft that returns its
\* summary and directly follows a submit_draft of the same proposal with the
\* same roster and the same relevant list, every relevant department has
\* exactly one row with title = original.title + " - " + department and
\* assigned_to_email = the department's email.
C2_ResubmissionIdempotence ==
    (Answered("submit") /\ last.code = 200 /\ last.repeat)
        => \A i \in 1..Len(last.relevant) : Cardinality(RevisionRows(i)) = 1

\* C3. Revision-key uniqueness: no two rows with assigned_to_email set have
\* the same (title, assigned_to_email).
C3_RevisionKeyUnique ==
    \A r1, r2 \in DOMAIN proposals :
        (/\ proposals[r1].assigned_to_email # ""
         /\ proposals[r1].assigned_to_email = proposals[r2].assigned_to_email
         /\ proposals[r1].title = proposals[r2].title) => r1 = r2

\* C4. Effective-content routing: a successful iterate or chat on a row with
\* assigned_to_email set and a non-empty proposal_revision hands
\* proposal_revision to the generator, replaces proposal_revision by the
\* generated document and leaves content alone; on a row with
\* assigned_to_email unset it hands over content, replaces content and
\* leaves proposal_revision alone.
C4_EffectiveContentRouting ==
    [][ ((Answers("iterate") \/ Answers("chat")) /\ last'.code = 200)
            => LET p == proposals[last'.id]
                   q == proposals'[last'.id]
               IN  /\ (p.assigned_to_email # "" /\ p.proposal_revision # "")
                         => /\ last'.read = p.proposal_revision
                            /\ q.proposal_revision = last'.generated
                            /\ q.content = p.content
                   /\ p.assigned_to_email = ""
                         => /\ last'.read = p.content
                            /\ q.content = last'.generated
                            /\ q.proposal_revision = p.proposal_revision
      ]_vars

\* An iterate that rewrote the personalized text of a revision row whose
\* content differs from it.
C4_Witness ==
    /\ Answered("iterate") /\ last.code = 200
    /\ proposals[last.id].assigned_to_email # ""
    /\ last.read = "p:Eng" /\ last.generated = "g"
    /\ proposals[last.id].proposal_revision = "g"
    /\ proposals[last.id].content = "c"

\* C5. Iterate failure atomicity: an iterate or chat whose generation call
\* fails, or that finds no generation service, is answered with an error and
\* leaves the proposal's content, proposal_revision, status and final_draft
\* as they were.
C5_IterateFailureAtomic ==
    [][ ((Answers("iterate") \/ Answers("chat"))
            /\ (last'.gen = "failed" \/ last'.code = 503))
            => LET p == proposals[last'.id]
                   q == proposals'[last'.id]
               IN  /\ last'.code \in {500, 503}
                   /\ last'.id \in DOMAIN proposals'
                   /\ q.content = p.content
                   /\ q.proposal_revision = p.proposal_revision
                   /\ q.status = p.status
                   /\ q.final_draft = p.final_draft
      ]_vars

\* A failed generation on a proposal that has content to lose.
C5_Witness ==
    /\ Answered("iterate") /\ last.gen = "failed" /\ last.code = 500
    /\ proposals[last.id].content = "c"

\* C6. Consolidation failure: when generate_final_tender fails, submit_draft
\* fails, the original keeps its status, final_draft and proposal_revision,
\* and every entry upserted in the call has a row holding its personalized
\* text.
C6_ConsolidationFailure ==
    [][ (Answers("submit") /\ last'.final = "failed")
            => LET p == proposals[last'.id]
                   q == proposals'[last'.id]
               IN  /\ last'.code = 500
                   /\ q.status = p.status
                   /\ q.final_draft = p.final_draft
                   /\ q.proposal_revision = p.proposal_revision
                   /\ \A i \in 1..Len(last'.bodies) :
                        \E r \in DOMAIN proposals' :
                            /\ proposals'[r].title =
                                  p.title \o " - " \o last'.relevant[i].department
                            /\ proposals'[r].assigned_to_email =
                                  last'.relevant[i].email
                            /\ proposals'[r].proposal_revision = last'.bodies[i]
      ]_vars

\* A failed consolidation after two departments were served.
C6_Witness ==
    /\ Answered("submit") /\ last.final = "failed" /\ last.code = 500
    /\ Len(last.bodies) = 2
    /\ proposals[last.id].status = "draft"
    /\ \A i \in 1..2 : \E r \in RevisionRows(i) :
            proposals[r].proposal_revision = last.bodies[i]

\* C7. Continue-on-error for generation: when the personalized generation
\* of one relevant department fails, every other relevant department has
\* its revision generated and upserted and its notification attempted in
\* the same call.
C7_ContinueOnGenerationError ==
    (Answered("submit") /\ last.attempted > Len(last.bodies))
        => /\ Len(last.bodies) = Len(last.relevant) - 1
           /\ Len(last.transport) = Len(last.relevant) - 1
           /\ \A i \in 1..Len(last.relevant) :
                i # last.attempted => RevisionRows(i) # {}

\* C8. Continue-on-error for notification: when the primary and the
\* fallback send of a department both fail, the failure is recorded and not
\* raised: the department's row is there, its personalized text is among
\* the consolidation input, the next department is attempted, the summary
\* counts the failure, and a failure of the call has another cause (a failed
\* generation or a failed consolidation).
C8_ContinueOnNotificationError ==
    Answered("submit")
        => \A i \in 1..Len(last.transport) :
              last.transport[i] = "failed"
                => /\ Len(last.mails) >= i /\ last.mails[i] = FALSE
                   /\ RevisionRows(i) # {}
                   /\ Len(last.bodies) >= i
                   /\ i < Len(last.relevant) => last.attempted > i
                   /\ last.code = 200
                        => last.summary.emails_failed =
                              Cardinality({j \in 1..Len(last.transport) :
                                              last.transport[j] = "failed"})
                   /\ last.code # 200
                        => \/ last.attempted > Len(last.bodies)
                           \/ last.final = "failed"

\* A call that returned its summary although the first of two notifications
\* failed.
C8_Witness ==
    /\ Answered("submit") /\ last.code = 200
    /\ Len(last.transport) = 2 /\ last.transport[1] = "failed"
    /\ last.summary.emails_failed >= 1
    /\ Len(last.bodies) = 2
    /\ RevisionRows(1) # {}

\* C9. Fallback tolerance: when the classification answer is not valid JSON
\* or is JSON but no array, submit_draft returns its summary with
\* relevant_departments = 0 and tender_generated = false, creates no row and
\* attempts no generation and no notification.
C9_FallbackTolerance ==
    [][ (Answers("submit") /\ last'.extract \in {"text", "object", "unclosed"})
            => /\ last'.code = 200
               /\ last'.relevant = <<>>
               /\ last'.summary.relevant_departments = 0
               /\ last'.summary.tender_generated = FALSE
               /\ last'.attempted = 0
               /\ last'.transport = <<>>
               /\ DOMAIN proposals' = DOMAIN proposals
      ]_vars

\* A call whose classification answered plain text, for a caller with a
\* roster.
C9_Witness ==
    /\ Answered("submit") /\ last.extract = "text" /\ last.roster # {}
    /\ last.code = 200 /\ last.summary = NoSummary

\* C10. Final-tender write-back: after a submit_draft that returns its
\* summary with at least one relevant department, the original is
\* "submitted" with final_draft set and proposal_revision the consolidated
\* final tender, and every revision row of a relevant department holds the
\* same final tender.
C10_FinalTenderWriteBack ==
    (Answered("submit") /\ last.code = 200 /\ last.relevant # <<>>)
        => /\ proposals[last.id].status = "submitted"
           /\ proposals[last.id].final_draft
           /\ last.final = "ok"
           /\ proposals[last.id].proposal_revision = last.generated
           /\ \A i \in 1..Len(last.relevant) :
                /\ RevisionRows(i) # {}
                /\ \A r \in RevisionRows(i) :
                      proposals[r].proposal_revision = last.generated

\* The revision rows of entry i of the relevant list of the submit_draft that
\* process w is serving.
RowsOf(w, i) ==
    {r \in DOMAIN proposals :
        /\ proposals[r].title =
              proposals[inflight[w].id].title \o " - "
                  \o inflight[w].relevant[i].department
        /\ proposals[r].assigned_to_email = inflight[w].relevant[i].email}

\* C11. Status flips last: whenever a submit_draft has committed the status
\* "submitted" of its proposal, every relevant department has a revision
\* row that holds the final tender written to the original; and whenever a
\* proposal is "published", an ActiveTender references it.
C11_StatusFlipsLast ==
    /\ \A w \in Workers :
         (/\ inflight[w].op = "submit"
          /\ inflight[w].pc = "writeback" \/ inflight[w].code = 200
          /\ proposals[inflight[w].id].status = "submitted")
            => \A i \in 1..Len(inflight[w].relevant) :
                  \E r \in RowsOf(w, i) :
                     proposals[r].proposal_revision =
                        proposals[inflight[w].id].proposal_revision
    /\ \A id \in DOMAIN proposals :
         proposals[id].status = "published"
            => \E t \in DOMAIN tenders : tenders[t].proposal_id = id

\* No user of the caller's organization other than owners has a department.
NoDepartment(caller) ==
    \A e \in DOMAIN users :
        (users[e].organization_nif = users[caller].organization_nif
            /\ users[e].role # "owner") => users[e].department = ""

\* C12. Empty roster: a submit_draft of an existing proposal, with the
\* revision service configured, by a caller whose organization has no
\* non-owner member with a department, calls neither extraction nor
\* personalization nor consolidation, attempts no notification, creates or
\* updates no other row, and returns its summary with
\* relevant_departments = 0 and tender_generated = false.
C12_EmptyRoster ==
    [][ (Answers("submit") /\ last'.code \notin {404, 503}
            /\ NoDepartment(last'.caller))
            => /\ last'.code = 200
               /\ last'.extract = "none"
               /\ last'.attempted = 0
               /\ last'.final = "none"
               /\ last'.transport = <<>>
               /\ DOMAIN proposals' = DOMAIN proposals
               /\ \A r \in DOMAIN proposals :
                     r # last'.id => proposals'[r] = proposals[r]
               /\ last'.summary.relevant_departments = 0
               /\ last'.summary.tender_generated = FALSE
      ]_vars

\* A submit_draft by the user without organization, answered with the empty
\* summary, while another organization has departments.
C12_Witness ==
    /\ Answered("submit") /\ last.caller = LonerEmail
    /\ last.code = 200 /\ last.extract = "none" /\ last.roster = {}
    /\ last.summary = NoSummary
    /\ proposals[last.id].status = "submitted"

\* The preconditions of publish_tender for proposal row p and caller c, on
\* the tables before the call.
HasContent(p) == p.proposal_revision # "" \/ p.content # ""
Publishable(id, c) ==
    /\ HasContent(proposals[id])
    /\ TendersOf(id) = {}
    /\ users[c].organization_nif # ""

\* The ActiveTender rows a step added.
Added == DOMAIN tenders' \ DOMAIN tenders

C14_ExtractionNeverBlocks ==
    [][ (Answers("publish") /\ last'.id \in DOMAIN proposals
            /\ Publishable(last'.id, last'.caller))
            => /\ last'.code = 200
               /\ Added # {}
               /\ last'.extract \in {"error", "none"}
                    => \A t \in Added :
                          /\ tenders'[t].title = proposals[last'.id].title
                          /\ tenders'[t].price = 0
      ]_vars

\* A publish_tender that succeeded although the configured extraction
\* service raised.
C14_Witness ==
    /\ Answered("publish") /\ last.code = 200 /\ last.extract = "error"
    /\ "active_tender_service" \in services
    /\ \E t \in TendersOf(last.id) :
          tenders[t].title = proposals[last.id].title /\ tenders[t].price = 0

\* C15. ActiveTender immutability: a step leaves every ActiveTender row as
\* it was, unless it is the deletion of the row's source proposal, which
\* removes the row.
C15_TenderImmutable ==
    [][ \A t \in DOMAIN tenders :
            IF t \in DOMAIN tenders'
            THEN tenders'[t] = tenders[t]
            ELSE /\ last'.op = "delete" /\ last'.code = 200
                 /\ last'.id = tenders[t].proposal_id
      ]_vars

\* An iterate that rewrote the content of a published proposal, whose
\* ActiveTender still holds the content published.
C15_Witness ==
    /\ Answered("iterate") /\ last.code = 200
    /\ proposals[last.id].content = "g"
    /\ proposals[last.id].status = "published"
    /\ \E t \in TendersOf(last.id) : tenders[t].tender_content = "c"

\* C16. Concurrent publish: under every interleaving of two publish_tender
\* calls, no proposal is referenced by more than one ActiveTender.
C16_ConcurrentPublish ==
    \A id \in ProposalIds : Cardinality(TendersOf(id)) <= 1

\* C17. Concurrent submit: under every interleaving of two submit_draft
\* calls, every proposal has at most one revision row per department, keyed
\* by (title + " - " + department, the department's email).
C17_ConcurrentSubmit ==
    \A id \in DOMAIN proposals : \A person \in People :
        Cardinality({r \in DOMAIN proposals :
            /\ proposals[r].title =
                  proposals[id].title \o " - " \o person.department
            /\ proposals[r].assigned_to_email = person.email}) <= 1

\* The submission dates the statement of C18 is evaluated on.
Dates == 0..(MaxNow + 366)

\* C18. Date derivation: calculate_dates returns the submission_date it is
\* given, submission_deadline = submission_date + 7 days and
\* contract_expiry_date = submission_date + 365 days; the ActiveTender a
\* publish_tender adds carries the three dates of the clock reading it took.
C18_DateDerivation ==
    [][ (Answers("publish") /\ last'.code = 200)
            => /\ \A d \in Dates :
                    calculate_dates(d) =
                        [submission_date |-> d,
                         submission_deadline |-> d + 7,
                         contract_expiry_date |-> d + 365]
               /\ Added # {}
               /\ \A t \in Added :
                    /\ tenders'[t].submission_date = last'.utcnow
                    /\ tenders'[t].submission_deadline = last'.utcnow + 7
                    /\ tenders'[t].contract_expiry_date = last'.utcnow + 365
      ]_vars

\* A tender published at the last clock reading.
C18_Witness ==
    /\ Answered("publish") /\ last.code = 200 /\ last.utcnow = MaxNow
    /\ \E t \in TendersOf(last.id) :
          /\ tenders[t].submission_date = MaxNow
          /\ tenders[t].submission_deadline = MaxNow + 7
          /\ tenders[t].contract_expiry_date = MaxNow + 365

\* The place of a status in the lifecycle.
Rank(status) ==
    CASE status = "draft" -> 0
      [] status = "revision" -> 1
      [] status = "submitted" -> 2
      [] status = "published" -> 3

\* C19. Lifecycle order: no step moves the status of a proposal backwards
\* along draft, revision, submitted, published.
C19_LifecycleOrder ==
    [][ \A id \in DOMAIN proposals \cap DOMAIN proposals' :
            Rank(proposals'[id].status) >= Rank(proposals[id].status)
      ]_vars

\* C20. Summary accounting: every summary returned by submit_draft has
\* emails_sent + emails_failed = relevant_departments.
C20_SummaryAccounting ==
    (Answered("submit") /\ last.code = 200)
        => last.summary.emails_sent + last.summary.emails_failed
              = last.summary.relevant_departments

\* C21: a revision row (assigned_to_email set) is in the response of a read
\* accessor (get_proposal, list_proposals, my-revisions, my-revision) only
\* when the caller is the user it is assigned to or the owner of the
\* proposal it was made from (whose user_id the revision row carries).
C21_RevisionVisibility ==
    last.op \in {"get", "list", "my-revisions", "my-revision"} =>
        \A i \in last.returned :
            proposals[i].assigned_to_email # "" =>
                last.caller \in {proposals[i].assigned_to_email,
                                 proposals[i].user_id}

\* C22: when iterate or chat calls the generator on a row whose
\* assigned_to_email is set, the text it reads is the row's
\* proposal_revision, also when that field is empty, and the row's content
\* is neither the text read nor written.
C22_RevisionNeverTouchesContent ==
    [][(Answers("iterate") \/ Answers("chat")) /\ last'.gen # "none"
         /\ proposals[last'.id].assigned_to_email # ""
       => /\ last'.read = proposals[last'.id].proposal_revision
          /\ proposals'[last'.id].content = proposals[last'.id].content]_vars

\* C23: every entry submit_draft fans out to (generates a personalized
\* proposal for) is a member of the roster gathered for that call.
C23_FanOutWithinRoster ==
    Answered("submit") =>
        \A i \in 1..last.attempted : last.relevant[i].email \in last.roster

Called(fn) == call.fn = fn

\* C25: summarize_department_proposals over n >= 1 contributions allots
\* min(5000, 100000 div n) characters to each and emits exactly n sections
\* in input order; a contribution no longer than the allotment is shown in
\* full, a longer one as its first allotment characters followed by the
\* truncation marker; none is left out.
C25_ContributionAllotment ==
    Called("summarize_department_proposals") /\ Len(call.args) >= 1 =>
        LET n == Len(call.args)
            allotment == IF max_chars_per_proposal <= total_budget \div n
                         THEN max_chars_per_proposal
                         ELSE total_budget \div n
        IN  /\ Len(call.result) = n
            /\ \A i \in 1..n :
                  LET given == call.args[i].proposal_content
                      section == call.result[i]
                  IN  /\ section.index = i
                      /\ section.department = call.args[i].department
                      /\ section.name = call.args[i].name
                      /\ section.content.id = given.id
                      /\ IF given.len <= allotment
                         THEN section.content.len = given.len /\ ~section.marker
                         ELSE section.content.len = allotment /\ section.marker

C25_Witness ==
    /\ Called("summarize_department_proposals")
    /\ Len(call.args) = MaxContributions
    /\ \E i \in 1..Len(call.args) :
          /\ call.result[i].marker
          /\ call.args[i].proposal_content.len <= max_chars_per_proposal

\* The combined length of the contributions from the i-th on.
RECURSIVE SumContent(_, _)
SumContent(department_proposals, i) ==
    IF i > Len(department_proposals) THEN 0
    ELSE department_proposals[i].proposal_content.len
            + SumContent(department_proposals, i + 1)

\* C26: for a list whose combined length is over the 100,000 budget, the
\* text returned contains the truncation marker and is at most the budget
\* plus the marker in length.
C26_ContributionBudget ==
    Called("summarize_department_proposals")
      /\ SumContent(call.args, 1) > total_budget =>
        /\ \E i \in 1..Len(call.result) : call.result[i].marker
        /\ SummaryLen(call.result) <= total_budget + SummaryMarkerLen

\* C27: when the token estimate of the assembled prompt is over 120,000,
\* generate_proposal_response sends a rebuilt prompt that has the system
\* prompt and the user instruction, no current-content text, and the text
\* of at most 3 attachments, each cut to its first 30,000 characters, with
\* the truncation marker exactly when the attachment's text is longer;
\* otherwise it sends the assembled prompt as it is.
C27_ReducedPrompt ==
    Called("generate_proposal_response") =>
        LET a == call.args
            sent == call.result.sent
            files == {i \in 1..Len(sent) : sent[i].part = "file"}
        IN  IF a.total_tokens > MAX_CONTEXT_TOKENS
            THEN /\ \E i \in 1..Len(sent) : sent[i].part = "system"
                 /\ \E i \in 1..Len(sent) :
                        /\ sent[i].part = "instruction"
                        /\ sent[i].text = a.user_message
                 /\ \A i \in 1..Len(sent) : sent[i].part # "current"
                 /\ Cardinality(files) <= ReducedFiles
                 /\ \A i \in files :
                        /\ sent[i].n \in 1..Len(a.attachments)
                        /\ LET given == a.attachments[sent[i].n].extracted_text
                           IN  /\ sent[i].text.id = given.id
                               /\ sent[i].text.len =
                                      (IF given.len > ReducedCharLimit
                                       THEN ReducedCharLimit ELSE given.len)
                               /\ sent[i].marker <=> given.len > ReducedCharLimit
            ELSE sent = call.result.assembled

C27_Witness ==
    /\ Called("generate_proposal_response")
    /\ call.args.total_tokens > MAX_CONTEXT_TOKENS
    /\ call.args.current_content.len > 0
    /\ Len(call.args.attachments) = MaxAttachments
    /\ \A i \in 1..MaxAttachments :
          call.args.attachments[i].extracted_text.len > 0
    /\ \E i, j \in 1..Len(call.result.sent) :
          /\ call.result.sent[i].part = "file" /\ call.result.sent[i].marker
          /\ call.result.sent[j].part = "file" /\ ~call.result.sent[j].marker

\* An original proposal: a row that is no revision row.
Original(i) == i \in Ids /\ proposals[i].assigned_to_email = ""

\* C28: submit_draft sets status "submitted" only in a call whose
\* consolidation ran and succeeded, so every original proposal with status
\* "submitted" holds a non-empty final tender in proposal_revision.
C28_SubmittedImpliesConsolidated ==
    /\ Answered("submit") /\ last.code = 200 => last.final = "ok"
    /\ \A i \in Ids :
          Original(i) /\ proposals[i].status = "submitted" =>
              proposals[i].proposal_revision # ""

\* C29: a submit_draft that succeeds on an original holding a non-empty
\* final tender (which only an earlier successful submit writes) leaves
\* its proposal_revision non-empty, whatever the roster, the relevant list
\* and the configuration of the email service.
C29_ResubmissionKeepsTender ==
    [][Answers("submit") /\ last'.code = 200 /\ Original(last'.id)
         /\ proposals[last'.id].proposal_revision # ""
       => proposals'[last'.id].proposal_revision # ""]_vars

\* C30: a submit_draft of an original A, served right after a successful
\* submit_draft of another original B, leaves the proposal_revision of
\* every revision row that the submit of B inserted as it was.
C30_NoCrossProposalInterference ==
    [][Answers("submit") /\ Original(last'.id)
         /\ prev # NoSubmit /\ prev.id # last'.id /\ Original(prev.id)
       => \A r \in prev.inserted :
             proposals'[r].proposal_revision = proposals[r].proposal_revision]_vars

====
